---- MODULE Spec2Model ----
(***************************************************************************)
(* The two how-to notebooks of docs/docs/how_to:                           *)
(*   hybrid.ipynb                   a Cassandra vector store, retrievers   *)
(*                                  with search_kwargs, and a question-    *)
(*                                  answering chain whose retriever takes  *)
(*                                  search_kwargs from the call's config;  *)
(*   output_parser_structured.ipynb the Joke schema, PydanticOutputParser  *)
(*                                  and SimpleJsonOutputParser, invoked    *)
(*                                  and streamed.                          *)
(* Spec is the hybrid notebook, SpecParser the output-parser notebook.     *)
(***************************************************************************)
EXTENDS Integers, Sequences, FiniteSets, TLC

VARIABLES
    \* ---- hybrid.ipynb
    sim,          \* the embedding model: per question, the rank of each text (1 = closest)
    store,        \* the rows of table test_hybrid: a sequence of body texts
    addRuns,      \* how many times the add_texts cell has run
    pc,           \* position of the running call: "idle" between calls
    kind,         \* which call runs: "retriever" (a cell calling .invoke on a retriever) or "chain"
    question,     \* the call's input
    config,       \* the call's config argument
    direct,       \* a retriever call's own search_kwargs (as_retriever(search_kwargs=...))
    context,      \* the documents the retriever step returned
    promptValue,  \* the prompt built from context and question
    message,      \* the chat model's reply
    answer,       \* what the call returned
    retriever,    \* the retriever object behind the chain (its search_kwargs field)
    overridden,   \* history: some earlier chain call carried a search_kwargs override
    \* ---- output_parser_structured.ipynb
    ppc,          \* position of the running parser-notebook call
    pkind,        \* "invoke", "stream", "json_stream", "manual" or "build"
    query,        \* the call's input
    piped,        \* the value the last stage handed to the next one
    values,       \* the object handed to the Joke model for validation
    validator,    \* what question_ends_with_question_mark did on values
    output,       \* the complete text the model produces for this call
    sent,         \* how many characters of output the model has streamed so far
    prev_parsed,  \* the streaming parser's last yielded value
    yielded,      \* the elements the stream has yielded so far
    result,       \* what the call returned
    again,        \* what the second parser.invoke(output) returned
    error,        \* the exception the call raised, or NoError
    modelCalls,   \* how often the model was invoked during this call
    stages        \* the stages of the chain that ran during this call, in order

hvars == <<sim, store, addRuns, pc, kind, question, config, direct, context,
           promptValue, message, answer, retriever, overridden>>
pvars == <<ppc, pkind, query, piped, values, validator, output, sent, prev_parsed,
           yielded, result, again, error, modelCalls, stages>>
vars == <<hvars, pvars>>

(***************************************************************************)
(* Bounds                                                                  *)
(***************************************************************************)
MaxAddRuns == 2     \* the add_texts cell runs at most this many times
MaxChunk == 2       \* the model streams its output in chunks of 1..MaxChunk characters

(***************************************************************************)
(* hybrid.ipynb: the stored texts                                          *)
(***************************************************************************)
\* Texts are sequences of whitespace-separated words, as written in the cell.
PARIS == <<"In", "2023,", "I", "visited", "Paris">>
NEW_YORK == <<"In", "2022,", "I", "visited", "New", "York">>
NEW_ORLEANS == <<"In", "2021,", "I", "visited", "New", "Orleans">>

\* add_texts with the last record left out.
texts_without_last == <<PARIS, NEW_YORK>>

\* The argument of vectorstore.add_texts.
texts == <<PARIS, NEW_YORK, NEW_ORLEANS>>

Range(s) == {s[i] : i \in 1..Len(s)}

(***************************************************************************)
(* hybrid.ipynb: the Cassandra vector store                                *)
(***************************************************************************)
\* A body index created without an analyzer.
body_index_options_empty == << >>

\* Cassandra(..., body_index_options=[STANDARD_ANALYZER], ...)
body_index_options == <<"STANDARD_ANALYZER">>

\* cassio's STANDARD_ANALYZER on one word: punctuation stripped, lowercased.
STANDARD_ANALYZER(word) ==
    CASE word = "In" -> "in"
      [] word = "I" -> "i"
      [] word = "2023," -> "2023"
      [] word = "2022," -> "2022"
      [] word = "2021," -> "2021"
      [] word = "Paris" -> "paris"
      [] word = "New" -> "new"
      [] word = "NEW" -> "new"
      [] word = "York" -> "york"
      [] word = "Orleans" -> "orleans"
      [] OTHER -> word

\* The index's analysis of a word: the configured analyzer's, or the word as
\* written when none is configured.
Analyze(word) ==
    IF "STANDARD_ANALYZER" \in Range(body_index_options) THEN STANDARD_ANALYZER(word)
    ELSE word

\* The terms the body index holds for a text.
IndexTerms(body) == {Analyze(body[i]) : i \in 1..Len(body)}

\* The body_search predicate of a row: the analyzed term is one of the row's terms.
BodyMatches(body, term) == Analyze(term) \in IndexTerms(body)

\* A search_kwargs dictionary: its key set and the values of the keys it has
\* (k is 0 and body_search is "" when the key is absent).
NoKwargs == [keys |-> {}, k |-> 0, body_search |-> ""]
BodySearch(t) == [keys |-> {"body_search"}, k |-> 0, body_search |-> t]
TopK(n) == [keys |-> {"k"}, k |-> n, body_search |-> ""]
TopKBodySearch(n, t) == [keys |-> {"k", "body_search"}, k |-> n, body_search |-> t]

\* Cassandra.similarity_search's default k.
DefaultK == 4

\* The rows a search may return: all of them, or those matching body_search.
Candidates(rows, kw) ==
    {i \in 1..Len(rows) :
        "body_search" \in kw.keys => BodyMatches(rows[i], kw.body_search)}

\* Row i is returned before row j for a question ranking: closer first, then
\* the older row.
Before(rows, rank, i, j) ==
    \/ rank[rows[i]] < rank[rows[j]]
    \/ rank[rows[i]] = rank[rows[j]] /\ i <= j

RECURSIVE Ordered(_, _, _)
Ordered(rows, rank, S) ==
    IF S = {} THEN << >>
    ELSE LET first == CHOOSE i \in S : \A j \in S : Before(rows, rank, i, j)
         IN  <<first>> \o Ordered(rows, rank, S \ {first})

Take(s, n) == IF Len(s) <= n THEN s ELSE SubSeq(s, 1, n)

\* Cassandra.similarity_search(query, **search_kwargs): the page contents of the
\* k closest rows among the candidates.
similarity_search(rows, rank, kw) ==
    LET k == IF "k" \in kw.keys THEN kw.k ELSE DefaultK
        hits == Take(Ordered(rows, rank, Candidates(rows, kw)), k)
    IN  [i \in 1..Len(hits) |-> rows[hits[i]]]

\* vectorstore.as_retriever(search_kwargs=kw): a VectorStoreRetriever.
as_retriever(kw) == [search_type |-> "similarity", search_kwargs |-> kw]

\* VectorStoreRetriever.invoke(q) on the store's rows.
RetrieverInvoke(r, rows, rank) == similarity_search(rows, rank, r.search_kwargs)

(***************************************************************************)
(* hybrid.ipynb: the question-answering chain                              *)
(***************************************************************************)
\* A retriever built with the hybrid cell's search_kwargs.
RetrieverCellFiltered == as_retriever(BodySearch("new"))

\* retriever = vectorstore.as_retriever()
RetrieverCell == as_retriever(NoKwargs)

\* The field's display name used as its id.
SearchKwargsFieldName == "Search Kwargs"

\* The id of the ConfigurableField that configurable_fields binds to the
\* retriever's search_kwargs attribute.
SearchKwargsFieldId == "search_kwargs"

\* A call's config: none, or {"configurable": {key: value}}.
NoConfig == [given |-> FALSE, key |-> "", value |-> NoKwargs]
Configurable(key, value) == [given |-> TRUE, key |-> key, value |-> value]

\* RunnableConfigurableFields.prepare: the retriever this call runs, a copy of
\* the default with search_kwargs replaced when the config carries the field id.
configurable_retriever(default, cfg) ==
    IF cfg.given /\ cfg.key = SearchKwargsFieldId
    THEN [default EXCEPT !.search_kwargs = cfg.value]
    ELSE default

\* ChatPromptTemplate.from_template(template) filled with the two variables.
qa_prompt(ctx, q) == [template |-> "Answer the question based only on the following context",
                      context |-> ctx, question |-> q]

\* StrOutputParser: the content of the model's message.
StrOutputParser(msg) == msg.content

(***************************************************************************)
(* hybrid.ipynb: inputs                                                    *)
(***************************************************************************)
Questions == {"What city did I visit last?", "Where was I in 2021?"}
Terms == {"new", "NEW", "paris", "tokyo"}
SearchKwargs ==
    {NoKwargs, TopK(1), TopKBodySearch(1, "new")} \cup {BodySearch(t) : t \in Terms}
Configs ==
    {NoConfig, Configurable("temperature", BodySearch("new"))}
        \cup {Configurable("search_kwargs", X) : X \in SearchKwargs}
\* What the chat model may reply.
Messages == {[content |-> "Paris"], [content |-> "New York"]}

TextSet == Range(texts)
\* The rankings an embedding model can induce on the texts for one question.
Rankings == {f \in [TextSet -> 1..Cardinality(TextSet)] :
                \A a, b \in TextSet : f[a] = f[b] => a = b}

(***************************************************************************)
(* output_parser_structured.ipynb: text and JSON                           *)
(*                                                                         *)
(* A string is a sequence of one-character strings; the model's output is  *)
(* such a string.  JSON texts here are written without whitespace, and a   *)
(* JSON value is an object of strings.                                     *)
(***************************************************************************)
QUOTE == "\""
BACKSLASH == "\\"
HexDigits == {"0", "1", "4"}

SETUP == <<"s", "e", "t", "u", "p">>
PUNCHLINE == <<"p", "u", "n", "c", "h", "l", "i", "n", "e">>
ANSWER == <<"a", "n", "s", "w", "e", "r">>

\* F(v), with v evaluated once.
With(v, F(_)) == CHOOSE out \in {F(x) : x \in {v}} : TRUE

Front(s) == SubSeq(s, 1, Len(s) - 1)
Last(s) == s[Len(s)]
IsPrefix(a, b) == Len(a) <= Len(b) /\ SubSeq(b, 1, Len(a)) = a

\* A dict: a function from its keys to their values.
EmptyDict == [key \in {} |-> << >>]
Put(d, key, value) ==
    [x \in DOMAIN d \cup {key} |-> IF x = key THEN value ELSE d[x]]

Failed == [ok |-> FALSE, value |-> << >>, next |-> 0]

\* The character a \uXXXX escape stands for.
CodePoint(hex) == IF hex = <<"0", "0", "4", "1">> THEN "A" ELSE "U+"

\* The character a two-character escape stands for.
Unescape(c) == IF c = "n" THEN "LF" ELSE c

\* json's string scanner from just after the opening quote: the decoded
\* string and the position after the closing quote.
scanstring[t \in Seq(STRING), i \in Nat, acc \in Seq(STRING)] ==
    IF i > Len(t) THEN Failed
    ELSE IF t[i] = QUOTE THEN [ok |-> TRUE, value |-> acc, next |-> i + 1]
    ELSE IF t[i] # BACKSLASH THEN scanstring[t, i + 1, Append(acc, t[i])]
    ELSE IF i + 1 > Len(t) THEN Failed
    ELSE IF t[i + 1] \in {QUOTE, BACKSLASH, "/", "n"}
         THEN scanstring[t, i + 2, Append(acc, Unescape(t[i + 1]))]
    ELSE IF t[i + 1] = "u" /\ i + 5 <= Len(t)
            /\ \A j \in (i + 2)..(i + 5) : t[j] \in HexDigits
         THEN scanstring[t, i + 6, Append(acc, CodePoint(SubSeq(t, i + 2, i + 5)))]
    ELSE Failed

JSONString(t, i) ==
    IF i > Len(t) \/ t[i] # QUOTE THEN Failed ELSE scanstring[t, i + 1, << >>]

\* One member of an object from position i: the key, a colon, the value.
JSONMember(t, i) ==
    LET key == JSONString(t, i)
    IN  IF ~key.ok \/ key.next > Len(t) \/ t[key.next] # ":" THEN <<Failed, Failed>>
        ELSE <<key, JSONString(t, key.next + 1)>>

\* The dict of a sequence of <<key, value>> pairs: a repeated key keeps the
\* last value.
FromPairs(pairs) ==
    [key \in {pairs[n][1] : n \in 1..Len(pairs)} |->
        pairs[CHOOSE n \in 1..Len(pairs) :
                /\ pairs[n][1] = key
                /\ \A m \in (n + 1)..Len(pairs) : pairs[m][1] # key][2]]

\* json's object scanner from the first member: a member, then a comma and
\* another member or the closing brace.
JSONObject[t \in Seq(STRING), i \in Nat, acc \in Seq(Seq(Seq(STRING)))] ==
    LET member(m) ==
            IF ~m[2].ok \/ m[2].next > Len(t) THEN Failed
            ELSE IF t[m[2].next] = ","
                 THEN JSONObject[t, m[2].next + 1, Append(acc, <<m[1].value, m[2].value>>)]
            ELSE IF t[m[2].next] = "}"
                 THEN [ok |-> TRUE, next |-> m[2].next + 1,
                       value |-> FromPairs(Append(acc, <<m[1].value, m[2].value>>))]
            ELSE Failed
    IN  With(JSONMember(t, i), member)

\* json.loads(t): the object, or a JSONDecodeError (ok = FALSE).
json_loads(t) ==
    IF Len(t) < 2 \/ t[1] # "{" THEN Failed
    ELSE IF t[2] = "}"
         THEN (IF Len(t) = 2 THEN [ok |-> TRUE, value |-> EmptyDict, next |-> 3] ELSE Failed)
    ELSE With(JSONObject[t, 2, << >>],
              LAMBDA obj : IF obj.ok /\ obj.next = Len(t) + 1 THEN obj ELSE Failed)

\* parse_partial_json's scan of the text: the stack of closers still owed,
\* whether the text ends inside a string and after a backslash, and whether a
\* closer came that nothing had opened.
ScanState == [stack : Seq(STRING), is_inside_string : BOOLEAN, escaped : BOOLEAN,
              mismatch : BOOLEAN]
Scan[t \in Seq(STRING), i \in Nat, st \in ScanState] ==
    IF i > Len(t) \/ st.mismatch THEN st
    ELSE IF st.is_inside_string
         THEN Scan[t, i + 1,
                CASE t[i] = QUOTE /\ ~st.escaped ->
                        [st EXCEPT !.is_inside_string = FALSE]
                  [] t[i] = BACKSLASH -> [st EXCEPT !.escaped = ~st.escaped]
                  [] OTHER -> [st EXCEPT !.escaped = FALSE]]
    ELSE Scan[t, i + 1,
                CASE t[i] = QUOTE ->
                        [st EXCEPT !.is_inside_string = TRUE, !.escaped = FALSE]
                  [] t[i] = "{" -> [st EXCEPT !.stack = Append(st.stack, "}")]
                  [] t[i] = "}" ->
                        IF st.stack # << >> /\ Last(st.stack) = "}"
                        THEN [st EXCEPT !.stack = Front(st.stack)]
                        ELSE [st EXCEPT !.mismatch = TRUE]
                  [] OTHER -> st]

\* The loop that drops characters from the end until the text, closed by the
\* owed closers, parses; out of characters, the error of the original text.
Trim[new_chars \in Seq(STRING), stack \in Seq(STRING)] ==
    IF new_chars = << >> THEN [kind |-> "error", value |-> EmptyDict]
    ELSE With(json_loads(new_chars \o stack),
              LAMBDA r : IF r.ok THEN [kind |-> "value", value |-> r.value]
                         ELSE Trim[Front(new_chars), stack])

\* parse_partial_json(s): kind "value" with the object, "none" (it returns
\* None), or "error" (it raises JSONDecodeError).
partial_after_scan(s, st) ==
    IF st.mismatch THEN [kind |-> "none", value |-> EmptyDict]
    ELSE Trim[(IF st.is_inside_string
               THEN (IF st.escaped THEN Front(s) ELSE s) \o <<QUOTE>>
               ELSE s),
              st.stack]

parse_partial_json(s) ==
    With(json_loads(s),
         LAMBDA whole :
            IF whole.ok THEN [kind |-> "value", value |-> whole.value]
            ELSE With(Scan[s, 1, [stack |-> << >>, is_inside_string |-> FALSE,
                                  escaped |-> FALSE, mismatch |-> FALSE]],
                      LAMBDA st : partial_after_scan(s, st)))

\* parse_json_markdown(text): these texts carry no code fence, so it is the
\* partial parser on the text.
parse_json_markdown(text) == parse_partial_json(text)

(***************************************************************************)
(* output_parser_structured.ipynb: the Joke model and the parsers          *)
(***************************************************************************)
\* Values the notebook's calls produce: None, a Joke (the dict of its two
\* fields) or a dict.
None == [kind |-> "None", value |-> EmptyDict]
JokeOf(s, p) == [kind |-> "Joke", value |-> Put(Put(EmptyDict, SETUP, s), PUNCHLINE, p)]
DictOf(d) == [kind |-> "dict", value |-> d]

NoError == "NoError"
BadlyFormed == "ValueError: Badly formed question!"
FieldRequired == "ValidationError: Field required"
InvalidJson == "OutputParserException: Invalid json output"
FailedToParse == "OutputParserException: Failed to parse Joke from completion"
NoGet == "AttributeError: 'NoneType' object has no attribute 'get'"

\* Joke with punchline: str = "" (only setup required).
JokeRequiredSetupOnly == {SETUP}

\* Joke's fields: setup: str and punchline: str, neither with a default.
JokeRequired == {SETUP, PUNCHLINE}

\* The validator testing setup[0] instead of setup[-1].
first_char_validator(vals) ==
    LET present == SETUP \in DOMAIN vals
        truthy == present /\ vals[SETUP] # << >>
        raises == truthy /\ vals[SETUP][1] # "?"
    IN  [ran |-> TRUE, raised |-> raises,
         returned |-> IF raises THEN [key \in {} |-> << >>] ELSE vals]

\* The validator with its test inverted: setup[-1] == "?".
inverted_validator(vals) ==
    LET present == SETUP \in DOMAIN vals
        truthy == present /\ vals[SETUP] # << >>
        raises == truthy /\ vals[SETUP][Len(vals[SETUP])] = "?"
    IN  [ran |-> TRUE, raised |-> raises,
         returned |-> IF raises THEN [key \in {} |-> << >>] ELSE vals]

\* The validator without its check.
no_validator(vals) == [ran |-> TRUE, raised |-> FALSE, returned |-> vals]

\* Joke.question_ends_with_question_mark(values): whether it raises
\* ValueError("Badly formed question!"), and the dict it returns when not.
question_ends_with_question_mark(vals) ==
    LET present == SETUP \in DOMAIN vals
        truthy == present /\ vals[SETUP] # << >>
        raises == truthy /\ Last(vals[SETUP]) # "?"
    IN  [ran |-> TRUE, raised |-> raises,
         returned |-> IF raises THEN EmptyDict ELSE vals]

NotRun == [ran |-> FALSE, raised |-> FALSE, returned |-> EmptyDict]

FieldOr(d, key) == IF key \in DOMAIN d THEN d[key] ELSE << >>

\* Joke(**vals) / Joke.model_validate(vals): the mode="before" validator runs
\* on the raw input, then the fields are validated on what it returned.
model_validate(vals) ==
    With(question_ends_with_question_mark(vals),
         LAMBDA v :
            IF v.raised THEN [error |-> BadlyFormed, value |-> None, validator |-> v]
            ELSE IF \E f \in JokeRequired : f \notin DOMAIN v.returned
                 THEN [error |-> FieldRequired, value |-> None, validator |-> v]
            ELSE [error |-> NoError, validator |-> v,
                  value |-> JokeOf(FieldOr(v.returned, SETUP),
                                   FieldOr(v.returned, PUNCHLINE))])

\* JsonOutputParser.parse_result(text, partial) (SimpleJsonOutputParser is
\* the same class).
json_parse_result(text, partial) ==
    With(parse_json_markdown(text),
         LAMBDA j :
            CASE j.kind = "value" ->
                    [error |-> NoError, value |-> DictOf(j.value), obj |-> j.value,
                     validator |-> NotRun]
              [] j.kind = "none" ->
                    [error |-> NoError, value |-> None, obj |-> EmptyDict,
                     validator |-> NotRun]
              [] OTHER ->
                    [error |-> IF partial THEN NoError ELSE InvalidJson, value |-> None,
                     obj |-> EmptyDict, validator |-> NotRun])

\* The Joke of a JSON object (PydanticOutputParser._parse_obj); with partial,
\* an OutputParserException gives None.
parse_obj(j, partial) ==
    With(model_validate(j.obj),
         LAMBDA m :
            IF m.error # NoError
            THEN [error |-> IF partial THEN NoError ELSE FailedToParse, value |-> None,
                  obj |-> j.obj, validator |-> m.validator]
            ELSE [error |-> NoError, value |-> m.value, obj |-> j.obj,
                  validator |-> m.validator])

\* PydanticOutputParser(pydantic_object=Joke).parse_result(text, partial): the
\* JSON object of the text (always parsed as a complete result), then the
\* Joke validated from it.
pydantic_parse_result(text, partial) ==
    With(json_parse_result(text, FALSE),
         LAMBDA j :
            IF j.error # NoError
            THEN [error |-> IF partial THEN NoError ELSE j.error, value |-> None,
                  obj |-> EmptyDict, validator |-> NotRun]
            ELSE IF j.value = None
            THEN [error |-> NoGet, value |-> None, obj |-> EmptyDict,
                  validator |-> NotRun]
            ELSE parse_obj(j, partial))

\* A parser that parses every text as a partial one.
partial_parser(text) == pydantic_parse_result(text, TRUE)

\* parser = PydanticOutputParser(pydantic_object=Joke); parser.invoke(text).
parser(text) == pydantic_parse_result(text, FALSE)

\* json_parser = SimpleJsonOutputParser()
json_parser(text) == json_parse_result(text, FALSE)

\* prompt = PromptTemplate(template="Answer the user query.\n{format_instructions}\n{query}\n")
prompt(input) == <<"Answer the user query.", "{format_instructions}">> \o input

\* json_prompt = PromptTemplate.from_template("Return a JSON object ... {question}")
json_prompt(input) == <<"Return a JSON object with an answer key">> \o input

\* The runnable sequences of the notebook, as the names of their stages.
prompt_and_model == <<"prompt", "model">>
chain_parser_before_model == <<"prompt", "parser", "model">>
json_chain_with_parser == <<"json_prompt", "model", "parser">>
chain == <<"prompt", "model", "parser">>
json_chain == <<"json_prompt", "model", "json_parser">>

(***************************************************************************)
(* output_parser_structured.ipynb: inputs                                  *)
(***************************************************************************)
Queries == {"Tell me a joke.", "Who invented the microscope?"}

\* The JSON text of an object given as a sequence of <<key, string body>>
\* pairs; a body is written as it stands between the quotes.
Member(pair) == <<QUOTE>> \o pair[1] \o <<QUOTE, ":", QUOTE>> \o pair[2] \o <<QUOTE>>
RECURSIVE Members(_)
Members(pairs) ==
    IF Len(pairs) = 1 THEN Member(pairs[1])
    ELSE Member(pairs[1]) \o <<",">> \o Members(Tail(pairs))
Dumps(pairs) == <<"{">> \o (IF pairs = << >> THEN << >> ELSE Members(pairs)) \o <<"}">>

Setups == {<< >>, <<"w">>, <<"w", "?">>, <<"?", "?">>, <<"?", "w">>}
Punchlines == {<< >>, <<"b">>, <<"b", "!">>}
GoodSetups == {<< >>, <<"w", "?">>, <<"?", "?">>}
Escaped == <<"b", BACKSLASH, "u", "0", "0", "4", "1">>

\* What the model may answer: a joke with setup first, one with punchline
\* first, one with an escaped character, an object with one field only, an
\* answer object, one whose key repeats, and texts that are no JSON object.
SetupFirst == {Dumps(<<<<SETUP, s>>, <<PUNCHLINE, p>>>>) : s \in Setups, p \in Punchlines}
PunchlineFirst == {Dumps(<<<<PUNCHLINE, p>>, <<SETUP, s>>>>) : s \in Setups, p \in Punchlines}
WithEscape == {Dumps(<<<<SETUP, <<"w", "?">>>>, <<PUNCHLINE, Escaped>>>>),
               Dumps(<<<<ANSWER, Escaped>>>>)}
OneField == {Dumps(<<<<SETUP, <<"w", "?">>>>>>), Dumps(<<<<PUNCHLINE, <<"b">>>>>>),
             Dumps(<<<<ANSWER, <<"A", "n", "t">>>>>>)}
RepeatedKey == {Dumps(<<<<ANSWER, <<"A", "n">>>>, <<ANSWER, <<"t">>>>>>)}
NotJson == {<<"N", "o", ".">>, <<"}">>}
ModelOutputs ==
    SetupFirst \cup PunchlineFirst \cup WithEscape \cup OneField \cup RepeatedKey
        \cup NotJson

\* The keyword arguments a cell may build a Joke from.
BuildInputs ==
    {EmptyDict}
        \cup {Put(EmptyDict, SETUP, s) : s \in Setups}
        \cup {Put(EmptyDict, PUNCHLINE, p) : p \in Punchlines}
        \cup {Put(Put(EmptyDict, SETUP, s), PUNCHLINE, p) : s \in Setups, p \in Punchlines}


(***************************************************************************)
(* hybrid.ipynb: the notebook as a state machine                           *)
(***************************************************************************)
Rest == pc \in {"idle", "returned"}

HybridStart ==
    /\ store = << >>
    /\ addRuns = 0
    /\ pc = "idle"
    /\ kind = "none"
    /\ question = ""
    /\ config = NoConfig
    /\ direct = as_retriever(NoKwargs)
    /\ context = << >>
    /\ promptValue = qa_prompt(<< >>, "")
    /\ message = [content |-> ""]
    /\ answer = ""
    /\ retriever = RetrieverCell
    /\ overridden = FALSE

ParserIdle ==
    /\ ppc = "idle"
    /\ pkind = "none"
    /\ query = ""
    /\ piped = << >>
    /\ values = EmptyDict
    /\ validator = NotRun
    /\ output = << >>
    /\ sent = 0
    /\ prev_parsed = None
    /\ yielded = << >>
    /\ result = None
    /\ again = None
    /\ error = NoError
    /\ modelCalls = 0
    /\ stages = << >>

\* The kernel after the set-up cells: an empty table, no call made yet, and
\* an embedding model that ranks the texts somehow for each question.
Init ==
    /\ sim \in [Questions -> Rankings]
    /\ HybridStart
    /\ ParserIdle

\* The cell vectorstore.add_texts([...]): the three records become new rows.
\* The cell is the one now run, so no call's output is the current one.
AddTexts ==
    /\ Rest
    /\ addRuns < MaxAddRuns
    /\ store' = store \o texts
    /\ addRuns' = addRuns + 1
    /\ pc' = "idle"
    /\ kind' = "none"
    /\ question' = ""
    /\ config' = NoConfig
    /\ direct' = as_retriever(NoKwargs)
    /\ context' = << >>
    /\ promptValue' = qa_prompt(<< >>, "")
    /\ message' = [content |-> ""]
    /\ answer' = ""
    /\ UNCHANGED <<sim, retriever, overridden, pvars>>

\* A cell vectorstore.as_retriever(search_kwargs=kw).invoke(q) starts.
RetrieverCall(q, kw) ==
    /\ Rest
    /\ pc' = "start"
    /\ kind' = "retriever"
    /\ question' = q
    /\ direct' = as_retriever(kw)
    /\ config' = NoConfig
    /\ context' = << >>
    /\ promptValue' = qa_prompt(<< >>, "")
    /\ message' = [content |-> ""]
    /\ answer' = ""
    /\ UNCHANGED <<sim, store, addRuns, retriever, overridden, pvars>>

\* A cell chain.invoke(q, config=cfg) starts.
ChainCall(q, cfg) ==
    /\ Rest
    /\ pc' = "start"
    /\ kind' = "chain"
    /\ question' = q
    /\ config' = cfg
    /\ direct' = as_retriever(NoKwargs)
    /\ context' = << >>
    /\ promptValue' = qa_prompt(<< >>, "")
    /\ message' = [content |-> ""]
    /\ answer' = ""
    /\ UNCHANGED <<sim, store, addRuns, retriever, overridden, pvars>>

\* The retriever runs: alone, or as the "context" branch of the chain's first
\* step (the "question" branch passes the input through).
QARetrieve ==
    /\ pc = "start"
    /\ context' = IF kind = "retriever"
                  THEN RetrieverInvoke(direct, store, sim[question])
                  ELSE RetrieverInvoke(configurable_retriever(retriever, config),
                                       store, sim[question])
    /\ pc' = IF kind = "retriever" THEN "returned" ELSE "retrieved"
    /\ UNCHANGED <<sim, store, addRuns, kind, question, config, direct, promptValue,
                   message, answer, retriever, overridden, pvars>>

\* | prompt
QAPrompt ==
    /\ pc = "retrieved"
    /\ promptValue' = qa_prompt(context, question)
    /\ pc' = "prompted"
    /\ UNCHANGED <<sim, store, addRuns, kind, question, config, direct, context,
                   message, answer, retriever, overridden, pvars>>

\* | model
QAModel ==
    /\ pc = "prompted"
    /\ message' \in Messages
    /\ pc' = "generated"
    /\ UNCHANGED <<sim, store, addRuns, kind, question, config, direct, context,
                   promptValue, answer, retriever, overridden, pvars>>

\* | StrOutputParser(), and the call returns.
QAParse ==
    /\ pc = "generated"
    /\ answer' = StrOutputParser(message)
    /\ pc' = "returned"
    /\ overridden' = (overridden \/ (config.given /\ config.key = SearchKwargsFieldId
                                     /\ "body_search" \in config.value.keys))
    /\ UNCHANGED <<sim, store, addRuns, kind, question, config, direct, context,
                   promptValue, message, retriever, pvars>>

Next ==
    \/ AddTexts
    \/ \E q \in Questions, kw \in SearchKwargs : RetrieverCall(q, kw)
    \/ \E q \in Questions, cfg \in Configs : ChainCall(q, cfg)
    \/ QARetrieve
    \/ QAPrompt
    \/ QAModel
    \/ QAParse


Spec == Init /\ [][Next]_vars

(***************************************************************************)
(* hybrid.ipynb: properties                                                *)
(***************************************************************************)
Count(s, x) == Cardinality({i \in 1..Len(s) : s[i] = x})

\* The chain call has run its retriever step.
Retrieved == kind = "chain" /\ pc \in {"retrieved", "prompted", "generated", "returned"}

\* A retriever call has returned.
RetrieverReturned == kind = "retriever" /\ pc = "returned"

\* The spellings of a term that differ by case only.
Spellings(t) ==
    CASE t \in {"new", "New", "NEW"} -> {"new", "New", "NEW"}
      [] t \in {"paris", "Paris", "PARIS"} -> {"paris", "Paris", "PARIS"}
      [] OTHER -> {t}

\* The text contains the term, case aside.
Contains(body, t) == \E i \in 1..Len(body) : body[i] \in Spellings(t)

\* C1: a chain call whose config is {"configurable": {"search_kwargs": X}}
\* retrieves what vectorstore.as_retriever(search_kwargs=X).invoke(q) returns
\* on the same store, and that is the context the prompt is built from.
C1_ConfigReachesRetriever ==
    (Retrieved /\ config.given /\ config.key = "search_kwargs") =>
        /\ context = RetrieverInvoke(as_retriever(config.value), store, sim[question])
        /\ pc # "retrieved" => promptValue.context = context

C1_Witness ==
    /\ Retrieved
    /\ pc = "prompted"
    /\ config = Configurable("search_kwargs", BodySearch("new"))
    /\ Len(store) = 3
    /\ Len(promptValue.context) = 2

C6_StandardSearchReturnsAll ==
    (RetrieverReturned /\ direct.search_kwargs.keys = {} /\ addRuns = 1) =>
        /\ Len(context) = 3
        /\ \A t \in {PARIS, NEW_YORK, NEW_ORLEANS} : Count(context, t) = 1

C6_Witness ==
    /\ RetrieverReturned
    /\ direct.search_kwargs.keys = {}
    /\ addRuns = 1
    /\ question = "Where was I in 2021?"
    /\ Len(context) = 3

\* C10: a call's search_kwargs override changes neither the retriever nor
\* the store: no step of a call changes them, the retriever stays the one the
\* notebook built, a call without an override retrieves unfiltered with the
\* default k whatever earlier calls passed, and a call with one retrieves
\* with its own.
C10_OverrideIsPerCall ==
    /\ [](retriever = as_retriever(NoKwargs))
    /\ []((Retrieved /\ ~(config.given /\ config.key = "search_kwargs")) =>
            context = similarity_search(store, sim[question], NoKwargs))
    /\ []((Retrieved /\ config.given /\ config.key = "search_kwargs") =>
            context = similarity_search(store, sim[question], config.value))
    /\ [][(~Rest \/ pc' = "start") => (store' = store /\ retriever' = retriever)]_vars

C10_Witness ==
    /\ overridden
    /\ Retrieved
    /\ ~config.given
    /\ Len(store) = 3
    /\ Len(context) = 3


(***************************************************************************)
(* output_parser_structured.ipynb: the notebook as a state machine         *)
(***************************************************************************)
PRest == ppc \in {"idle", "done"}

\* The runnable sequence a call runs.
SequenceOf(k) ==
    CASE k = "invoke" -> chain
      [] k = "stream" -> chain
      [] k = "json_stream" -> json_chain
      [] OTHER -> prompt_and_model

NextStage ==
    IF Len(stages) < Len(SequenceOf(pkind)) THEN SequenceOf(pkind)[Len(stages) + 1]
    ELSE "end"

\* Where the call stands once the next stage has run: still running, or at
\* the end of its sequence (prompt_and_model.invoke leaves its value in output).
AfterStage ==
    IF Len(stages) + 1 < Len(SequenceOf(pkind)) THEN "run"
    ELSE IF pkind = "manual" THEN "output"
    ELSE "done"

\* A cell builds Joke(**vals).
Build(vals) ==
    /\ PRest
    /\ \E m \in {model_validate(vals)} :
           /\ validator' = m.validator
           /\ result' = m.value
           /\ error' = m.error
    /\ pkind' = "build"
    /\ values' = vals
    /\ ppc' = "done"
    /\ query' = ""
    /\ piped' = << >>
    /\ output' = << >>
    /\ sent' = 0
    /\ prev_parsed' = None
    /\ yielded' = << >>
    /\ again' = None
    /\ modelCalls' = 0
    /\ stages' = << >>
    /\ UNCHANGED hvars

\* A cell starts chain.invoke ("invoke"), prompt_and_model.invoke followed by
\* parser.invoke ("manual"), chain.stream ("stream") or json_chain.stream
\* ("json_stream") on an input.
Call(k, q) ==
    /\ PRest
    /\ pkind' = k
    /\ query' = q
    /\ piped' = <<q>>
    /\ ppc' = "run"
    /\ values' = EmptyDict
    /\ validator' = NotRun
    /\ output' = << >>
    /\ sent' = 0
    /\ prev_parsed' = None
    /\ yielded' = << >>
    /\ result' = None
    /\ again' = None
    /\ error' = NoError
    /\ modelCalls' = 0
    /\ stages' = << >>
    /\ UNCHANGED hvars

\* The prompt template renders its input.
PromptStage ==
    /\ ppc = "run"
    /\ NextStage \in {"prompt", "json_prompt"}
    /\ piped' = IF NextStage = "prompt" THEN prompt(piped) ELSE json_prompt(piped)
    /\ stages' = Append(stages, NextStage)
    /\ ppc' = AfterStage
    /\ UNCHANGED <<pkind, query, values, validator, output, sent, prev_parsed, yielded,
                   result, again, error, modelCalls, hvars>>

\* The model answers the prompt with a text: handed on whole by invoke,
\* chunk by chunk by stream.
ModelStage(text) ==
    /\ ppc = "run"
    /\ NextStage = "model"
    /\ output' = text
    /\ modelCalls' = modelCalls + 1
    /\ stages' = Append(stages, "model")
    /\ IF pkind \in {"stream", "json_stream"}
       THEN piped' = << >> /\ ppc' = "stream"
       ELSE piped' = text /\ ppc' = AfterStage
    /\ UNCHANGED <<pkind, query, values, validator, sent, prev_parsed, yielded, result,
                   again, error, hvars>>

\* The output parser parses the text handed to it; an exception ends the call.
ParserStage ==
    /\ ppc = "run"
    /\ NextStage \in {"parser", "json_parser"}
    /\ \E r \in {IF NextStage = "parser" THEN parser(piped) ELSE json_parser(piped)} :
           /\ values' = r.obj
           /\ validator' = r.validator
           /\ result' = r.value
           /\ error' = r.error
           /\ ppc' = IF r.error # NoError THEN "done" ELSE AfterStage
    /\ stages' = Append(stages, NextStage)
    /\ UNCHANGED <<pkind, query, piped, output, sent, prev_parsed, yielded, again,
                   modelCalls, hvars>>

\* parser.invoke(output), after output = prompt_and_model.invoke(...).
ManualParse ==
    /\ ppc = "output"
    /\ \E r \in {parser(output)} :
           /\ values' = r.obj
           /\ validator' = r.validator
           /\ result' = r.value
           /\ error' = r.error
           /\ ppc' = IF r.error # NoError THEN "done" ELSE "parsed"
    /\ UNCHANGED <<pkind, query, piped, output, sent, prev_parsed, yielded, again,
                   modelCalls, stages, hvars>>

\* The next cell: parser.invoke(output) once more.
ManualParseAgain ==
    /\ ppc = "parsed"
    /\ \E r \in {parser(output)} :
           /\ again' = r.value
           /\ error' = r.error
    /\ ppc' = "done"
    /\ UNCHANGED <<pkind, query, piped, values, validator, output, sent, prev_parsed,
                   yielded, result, modelCalls, stages, hvars>>

\* The model streams the next n characters and the parser's transform runs on
\* the text so far (BaseCumulativeTransformOutputParser._transform): it yields
\* the partial parse when that is not None and differs from the last yield.
StreamChunk(n) ==
    /\ ppc = "stream"
    /\ sent + n <= Len(output)
    /\ \E acc \in {SubSeq(output, 1, sent + n)} :
       \E r \in {IF NextStage = "parser" THEN pydantic_parse_result(acc, TRUE)
                 ELSE json_parse_result(acc, TRUE)} :
       LET fresh == r.error = NoError /\ r.value # None /\ r.value # prev_parsed
           last == r.error # NoError \/ sent + n = Len(output)
       IN  /\ piped' = acc
           /\ error' = r.error
           /\ yielded' = IF fresh THEN Append(yielded, r.value) ELSE yielded
           /\ prev_parsed' = IF fresh THEN r.value ELSE prev_parsed
           /\ ppc' = IF last THEN "done" ELSE "stream"
           /\ stages' = IF last THEN Append(stages, NextStage) ELSE stages
    /\ sent' = sent + n
    /\ UNCHANGED <<pkind, query, values, validator, output, result, again, modelCalls,
                   hvars>>

ParserNext ==
    \/ \E vals \in BuildInputs : Build(vals)
    \/ \E k \in {"invoke", "manual", "stream", "json_stream"}, q \in Queries : Call(k, q)
    \/ PromptStage
    \/ \E text \in ModelOutputs : ModelStage(text)
    \/ ParserStage
    \/ ManualParse
    \/ ManualParseAgain
    \/ \E n \in 1..MaxChunk : StreamChunk(n)

\* The kernel of the output-parser notebook: no hybrid cell runs in it.
ParserInit ==
    /\ sim = [q \in Questions |-> CHOOSE r \in Rankings : TRUE]
    /\ HybridStart
    /\ ParserIdle

SpecParser == ParserInit /\ [][ParserNext]_vars

(***************************************************************************)
(* output_parser_structured.ipynb: properties                              *)
(***************************************************************************)
\* The setup is non-empty and its last character is not "?".
BadSetup(vals) ==
    /\ SETUP \in DOMAIN vals
    /\ vals[SETUP] # << >>
    /\ vals[SETUP][Len(vals[SETUP])] # "?"

BuildDone == pkind = "build" /\ ppc = "done"

\* C3: the validator raises ValueError("Badly formed question!") exactly
\* when the input has a non-empty setup whose last character is not "?", and
\* otherwise returns the values unchanged; it runs before the fields are
\* validated, so a bad setup is what Joke(...) fails on even when a field is
\* missing.
C3_ValidatorRaisesOnBadSetup ==
    /\ validator.ran =>
        /\ validator.raised <=> BadSetup(values)
        /\ ~validator.raised => validator.returned = values
    /\ BuildDone =>
        /\ validator.ran
        /\ BadSetup(values) => (error = BadlyFormed /\ result = None)

C3_Witness ==
    /\ BuildDone
    /\ validator.raised
    /\ values = Put(EmptyDict, SETUP, <<"?", "w">>)
    /\ error = BadlyFormed

\* C8 as stated: Joke has no invariant over its two string fields: any pair
\* of string values is accepted.
C8_Original ==
    (BuildDone /\ DOMAIN values = {SETUP, PUNCHLINE}) =>
        /\ error = NoError
        /\ result = JokeOf(values[SETUP], values[PUNCHLINE])

\* C8, amended: a pair of string values is accepted as a Joke exactly when
\* the setup is empty or ends with "?"; any other pair is rejected.
C8_AcceptedPairs ==
    (BuildDone /\ DOMAIN values = {SETUP, PUNCHLINE}) =>
        IF values[SETUP] = << >> \/ values[SETUP][Len(values[SETUP])] = "?"
        THEN error = NoError /\ result = JokeOf(values[SETUP], values[PUNCHLINE])
        ELSE error # NoError /\ result = None

C8_Witness ==
    /\ BuildDone
    /\ values = Put(Put(EmptyDict, SETUP, <<"w">>), PUNCHLINE, <<"b">>)
    /\ error # NoError
    /\ result = None

InvokeDone == pkind = "invoke" /\ ppc = "done"

MissingField ==
    OneField \cup RepeatedKey \cup {Dumps(<<<<ANSWER, Escaped>>>>)}
RejectedSetup ==
    {Dumps(<<<<SETUP, s>>, <<PUNCHLINE, p>>>>) : s \in {<<"w">>, <<"?", "w">>}, p \in Punchlines}
        \cup {Dumps(<<<<PUNCHLINE, p>>, <<SETUP, s>>>>) :
                s \in {<<"w">>, <<"?", "w">>}, p \in Punchlines}
FailingOutputs == NotJson \cup MissingField \cup RejectedSetup

\* C9: when the parser fails on the model's output, chain.invoke raises:
\* the model has been invoked exactly once, the parser once, and no Joke is
\* returned.
C9_NoRetry ==
    /\ pkind = "invoke" => modelCalls <= 1
    /\ (InvokeDone /\ output \in FailingOutputs) =>
        /\ error # NoError
        /\ result = None
        /\ modelCalls = 1
        /\ stages = <<"prompt", "model", "parser">>

C9_Witness ==
    /\ InvokeDone
    /\ output = Dumps(<<<<SETUP, <<"w">>>>, <<PUNCHLINE, <<"b">>>>>>)
    /\ error = FailedToParse
    /\ modelCalls = 1

\* The text is an object whose first key is the given one.
StartsWithKey(text, key) == IsPrefix(<<"{", QUOTE>> \o key \o <<QUOTE>>, text)

\* Each yielded Joke extends the one before: same setup, the punchline
\* before it a proper prefix of its own.
JokesExtend ==
    \A i \in 2..Len(yielded) :
        LET a == yielded[i - 1].value
            b == yielded[i].value
        IN  /\ b[SETUP] = a[SETUP]
            /\ IsPrefix(a[PUNCHLINE], b[PUNCHLINE])
            /\ a[PUNCHLINE] # b[PUNCHLINE]

\* The last yielded Joke is the one chain.invoke returns on the same output.
LastIsInvoked ==
    (ppc = "done" /\ parser(output).error = NoError) =>
        /\ yielded # << >>
        /\ yielded[Len(yielded)] = parser(output).value

DictsGrow ==
    \A i \in 2..Len(yielded) :
        LET a == yielded[i - 1].value
            b == yielded[i].value
        IN  /\ DOMAIN a \subseteq DOMAIN b
            /\ \A key \in DOMAIN a : key \in DOMAIN b => IsPrefix(a[key], b[key])
            /\ yielded[i] # yielded[i - 1]

\* The last yielded dict is the parse of the whole output.
LastIsFullParse ==
    (ppc = "done" /\ json_parser(output).error = NoError
                  /\ json_parser(output).value # None) =>
        /\ yielded # << >>
        /\ yielded[Len(yielded)] = json_parser(output).value

HasUnicodeEscape(text) ==
    \E i \in 1..(Len(text) - 1) : text[i] = BACKSLASH /\ text[i + 1] = "u"

\* C5 as stated: the dicts json_chain.stream yields have growing key sets,
\* each string value is extended by the next, no two consecutive ones are
\* equal, and the last is the parse of the complete output.
C5_Original ==
    pkind = "json_stream" => (DictsGrow /\ LastIsFullParse)

\* C5, amended: the same, the growth holding when the output has no \uXXXX
\* escape and no key twice.
C5_StreamedDictsGrow ==
    pkind = "json_stream" =>
        /\ (~HasUnicodeEscape(output) /\ output \notin RepeatedKey) => DictsGrow
        /\ LastIsFullParse

C5_Witness ==
    /\ pkind = "json_stream"
    /\ ppc = "done"
    /\ output = Dumps(<<<<ANSWER, <<"A", "n", "t">>>>>>)
    /\ yielded[1] = DictOf(EmptyDict)
    /\ Len(yielded) >= 4

\* A fully valid Joke: both fields present, the setup empty or ending in "?".
ValidJoke(e) ==
    /\ e.kind = "Joke"
    /\ DOMAIN e.value = {SETUP, PUNCHLINE}
    /\ \/ e.value[SETUP] = << >>
       \/ e.value[SETUP][Len(e.value[SETUP])] = "?"

\* The text holds the part somewhere.
Holds(text, part) ==
    \E i \in 1..(Len(text) - Len(part) + 1) : SubSeq(text, i, i + Len(part) - 1) = part

\* The streamed text so far has opened the punchline's value.
PunchlineBegun == Holds(piped, <<QUOTE>> \o PUNCHLINE \o <<QUOTE, ":", QUOTE>>)

\* The first yielded Joke has the setup of the complete output.
FirstHasCompleteSetup ==
    LET full == json_parser(output).value.value
    IN  SETUP \in DOMAIN full /\ yielded[1].value[SETUP] = full[SETUP]

\* Every yielded element is a valid Joke, and streaming a JSON object raises
\* nothing, whether or not its prefixes (or the whole of it) validate.
YieldsValidJokesOnly ==
    /\ \A i \in 1..Len(yielded) : ValidJoke(yielded[i])
    /\ output # << >> /\ output[1] = "{" => error = NoError

\* C11 as stated: every element chain.stream yields is a fully valid Joke,
\* a partial output that does not yet validate yields nothing and raises
\* nothing, and so the first element appears only once the setup is complete
\* and the punchline has begun.
C11_Original ==
    pkind = "stream" =>
        /\ YieldsValidJokesOnly
        /\ yielded # << >> => (FirstHasCompleteSetup /\ PunchlineBegun)

\* C11, amended: the same, the first element waiting for the complete setup
\* when the model's JSON gives the setup key before the punchline key; in
\* either order it waits for the punchline to have begun.
C11_StreamYieldsValidJokes ==
    pkind = "stream" =>
        /\ YieldsValidJokesOnly
        /\ yielded # << >> => PunchlineBegun
        /\ (yielded # << >> /\ ~StartsWithKey(output, PUNCHLINE)) => FirstHasCompleteSetup

C11_Witness ==
    /\ pkind = "stream"
    /\ ppc = "stream"
    /\ StartsWithKey(output, SETUP)
    /\ error = NoError
    /\ yielded = <<JokeOf(<<"w", "?">>, << >>)>>

====
